---- MODULE Spec2Model ----
(***************************************************************************)
(* A model of tap-groundtruth's extraction engine                          *)
(* (src/tap_groundtruth/streams.py): the retrying fetcher get_with_retry   *)
(* and the get_records generators of the streams.                          *)
(*                                                                         *)
(* Part 1: get_with_retry, the tenacity retry loop around requests.get.    *)
(* Part 2: one run of a stream's get_records generator: the accounts       *)
(* listing, the account allow-list, the campaigns listing per account, the *)
(* date windows per campaign and the records of each window.               *)
(* Part 3: two runs whose steps interleave, each first run alone.          *)
(***************************************************************************)
EXTENDS Integers, Sequences, FiniteSets, TLC

VARIABLES
    responses,       \* what the server answers to the attempts of the current call, in order
    attempt_number,  \* tenacity's retry_state.attempt_number: attempts made by the current call
    sleeps,          \* the waits tenacity slept between the attempts of the current call
    result,          \* how the current call ended: nothing yet, a returned response, a raised error
    request,         \* the request of the current call (url kind, headers, params)
    requests,        \* every HTTP request issued so far, one per attempt, with the
                     \* status it was answered with
    stream,          \* the stream class whose get_records runs
    config,          \* self.config
    starting_timestamp, \* what self.get_starting_timestamp(context) returns during this run
    today,           \* datetime.date.today()
    server,          \* the bodies the API answers with
    outage,          \* the answers the server gives to the next attempts, before it
                     \* answers every attempt with a 200
    pc,              \* where the generator stands
    accounts,        \* the accounts list decoded from the accounts response
    account_ids_config, \* the allow-list set built from config["account_ids"]
    ai,              \* accounts of the list the for loop has taken
    account_id,      \* the id of the account whose campaigns are walked
    campaigns,       \* the campaigns list decoded from the campaigns response
    ci,              \* campaigns of the list the for loop has taken
    campaign,        \* the campaign whose windows are walked
    end_date,        \* the end of the date range
    current_start,   \* the start of the current window
    current_end,     \* the end of the current window
    records,         \* the records decoded from the stats response
    ri,              \* records of the list the for loop has taken
    emitted,         \* every record yielded so far
    error,           \* the exception the run ended with
    statistics,      \* the statistics of the Retrying object that decorates
                     \* get_with_retry: one object for every call of every run
    phase,           \* "alone": a run runs by itself; "both": two runs interleave
    active,          \* the run whose state the variables above hold: 1 or 2
    initial,         \* the states the two runs start from
    alone,           \* what each run did when it ran by itself
    other            \* the state of the run that is not active

retryVars == <<responses, attempt_number, sleeps, result>>

inputVars == <<stream, config, starting_timestamp, today, server>>

walkVars ==
    <<outage, pc, accounts, account_ids_config, ai, account_id, campaigns, ci, campaign,
      end_date, current_start, current_end, records, ri, emitted, error>>

scheduleVars == <<phase, active, initial, alone, other>>

vars == <<retryVars, request, requests, inputVars, walkVars, statistics, scheduleVars>>

\* ------------------------------------------------------------------ helpers

Min(a, b) == IF a <= b THEN a ELSE b

Max(a, b) == IF a >= b THEN a ELSE b

RECURSIVE Pow(_, _)
Pow(b, n) == IF n = 0 THEN 1 ELSE b * Pow(b, n - 1)

\* ------------------------------------------------------------------ bounds

\* Length of the scripts of server answers one call is run against.
ScriptLen == 6

\* ------------------------------------------------------------------ HTTP responses and errors

\* requests.get either raises a transport failure (requests.exceptions.ConnectionError,
\* no response at all) or returns a response with a status code.
HttpResponse(s) == [transport |-> FALSE, status |-> s]

TransportFailure == [transport |-> TRUE, status |-> 0]

\* The answers the model's server gives: a success, a permanent 4xx, throttling, a
\* server error, and a dropped connection.
ServerAnswers ==
    {HttpResponse(200), HttpResponse(404), HttpResponse(429), HttpResponse(500),
     TransportFailure}

NoResponse == [transport |-> FALSE, status |-> 0]

NoError == [type |-> "none", status |-> 0, wrapped |-> FALSE]

\* response.raise_for_status(): HTTPError for 4xx and 5xx.
raise_for_status(r) ==
    IF (~r.transport) /\ r.status >= 400 /\ r.status < 600
    THEN [type |-> "HTTPError", status |-> r.status, wrapped |-> FALSE]
    ELSE NoError

\* streams.py:26-28 (and the test at streams.py:43): 5xx or 429.
is_retryable_response(r) == r.status >= 500 \/ r.status = 429

\* The exception one attempt of the decorated function ends with (NoError: it returns).
\* requests.get raises on a transport failure; otherwise raise_for_status decides, and
\* both branches of the except clause re-raise the HTTPError (streams.py:43-46).
AttemptError(r) ==
    IF r.transport
    THEN [type |-> "ConnectionError", status |-> 0, wrapped |-> FALSE]
    ELSE raise_for_status(r)

\* isinstance(e, requests.exceptions.RequestException): HTTPError and ConnectionError
\* are both subclasses of RequestException.
IsRequestException(e) == e.type \in {"HTTPError", "ConnectionError"}

\* Mutant: only transport failures are retried, HTTP errors never.
retry_only_transport_failures(e) == e.type = "ConnectionError"

\* retry=retry_if_exception_type(requests.exceptions.RequestException)
retry_if_exception_type(e) == e.type # "none" /\ IsRequestException(e)

\* stop=stop_after_attempt(5)
MaxAttemptNumber == 5

\* Mutant: the attempts are counted in the statistics of the Retrying object, which
\* every call shares, and not in the retry state of the call.
stop_after_attempt_of_statistics(n) ==
    (IF n = 1 THEN 1 ELSE statistics.attempt_number) >= MaxAttemptNumber

\* Mutant: the stop test is off by one and lets a further attempt through.
stop_after_attempt_off_by_one(n) == n > MaxAttemptNumber

stop_after_attempt(n) == n >= MaxAttemptNumber

\* wait=wait_exponential(multiplier=1, min=2, max=10); tenacity computes
\* max(max(0, min), min(multiplier * 2 ** (attempt_number - 1), max)).
WaitMultiplier == 1

WaitMin == 2

WaitMax == 10

\* Mutant: the exponent is the attempt number itself (2, 4, 8, 10), as in tenacity
\* before the exponent became attempt_number - 1.
wait_exponential_from_attempt_number(n) ==
    Max(Max(0, WaitMin), Min(WaitMultiplier * Pow(2, n), WaitMax))

wait_exponential(n) ==
    Max(Max(0, WaitMin), Min(WaitMultiplier * Pow(2, n - 1), WaitMax))

\* reraise=True: on stop the last exception is raised itself, not inside a RetryError.
reraise == TRUE

RaisedOnStop(e) ==
    IF reraise THEN e ELSE [type |-> "RetryError", status |-> e.status, wrapped |-> TRUE]

NoResult == [kind |-> "none", response |-> NoResponse, exc |-> NoError]

Returned(r) == [kind |-> "return", response |-> r, exc |-> NoError]

Raised(e) == [kind |-> "raise", response |-> NoResponse, exc |-> e]

\* ------------------------------------------------------------------ get_with_retry

\* Retrying.statistics before the first call.
NoStatistics == [attempt_number |-> 0, idle_for |-> 0]

\* Retrying.begin(), which every call of get_with_retry starts with.
BegunStatistics == [attempt_number |-> 1, idle_for |-> 0]

\* The statistics after attempt n of a call has ended in e: the first attempt comes
\* after begin(), and an attempt that is retried adds its wait and counts one up.
StatisticsAfter(n, e) ==
    LET before == IF n = 1 THEN BegunStatistics ELSE statistics
    IN  IF retry_if_exception_type(e) /\ ~stop_after_attempt(n)
        THEN [attempt_number |-> before.attempt_number + 1,
              idle_for |-> before.idle_for + wait_exponential(n)]
        ELSE before

\* One iteration of tenacity's loop around get_with_retry: the attempt (requests.get and
\* raise_for_status), then tenacity's decision: return the response, raise, or sleep
\* and go round again.
Attempt ==
    /\ result.kind = "none"
    /\ attempt_number < Len(responses)
    /\ LET n == attempt_number + 1
           r == responses[n]
           e == AttemptError(r)
       IN  /\ attempt_number' = n
           /\ requests' = Append(requests, [request EXCEPT !.status = r.status])
           /\ IF ~retry_if_exception_type(e)
              THEN /\ result' = (IF e.type = "none" THEN Returned(r) ELSE Raised(e))
                   /\ sleeps' = sleeps
              ELSE IF stop_after_attempt(n)
              THEN /\ result' = Raised(RaisedOnStop(e))
                   /\ sleeps' = sleeps
              ELSE /\ result' = result
                   /\ sleeps' = Append(sleeps, wait_exponential(n))
           /\ statistics' = StatisticsAfter(n, e)
    /\ UNCHANGED <<responses, request, inputVars, walkVars, scheduleVars>>

\* ------------------------------------------------------------------ values

\* A JSON / Python value: its type tag t, a number n (the integer, or the day number of a
\* date), and for a string the format fmt of its text.
PyValue(t, n, fmt) == [t |-> t, n |-> n, fmt |-> fmt]

\* None (JSON null, or what dict.get gives for a key that is not there).
PyNone == PyValue("none", 0, "")

\* The value of a key that is not in the dict.
PyAbsent == PyValue("absent", 0, "")

PyInt(k) == PyValue("int", k, "")

PyDict(k) == PyValue("dict", k, "")

\* A string that holds a date: "2024-01-01" is fmt "%Y-%m-%d", "2024-01-01T00:00:00Z" is
\* fmt "%Y-%m-%dT%H:%M:%SZ", "2024-01-01T00:00:00" is fmt "%Y-%m-%dT%H:%M:%S"; a string
\* that holds no date has fmt "text".
PyStr(fmt, day) == PyValue("str", day, fmt)

\* Python truthiness of a value: None, 0 and "" are falsy.
Truthy(v) ==
    CASE v.t \in {"none", "absent"} -> FALSE
      [] v.t = "int" -> v.n # 0
      [] v.t = "str" -> v.fmt # ""
      [] OTHER -> TRUE

\* str(n) of a non-negative integer, as a sequence of characters.
RECURSIVE str(_)
str(n) ==
    LET digit(d) == <<"0", "1", "2", "3", "4", "5", "6", "7", "8", "9">>[d + 1]
    IN  IF n < 10 THEN <<digit(n)>> ELSE str(n \div 10) \o <<digit(n % 10)>>

\* s.split(","): the pieces between the commas, in order.
RECURSIVE split(_)
split(s) ==
    IF \A i \in 1..Len(s) : s[i] # ","
    THEN <<s>>
    ELSE LET c == CHOOSE i \in 1..Len(s) : s[i] = "," /\ \A k \in 1..(i - 1) : s[k] # ","
         IN  <<SubSeq(s, 1, c - 1)>> \o split(SubSeq(s, c + 1, Len(s)))

\* Mutant: the entries are not trimmed.
strip_nothing(s) == s

\* s.strip(): s without its leading and trailing whitespace.
RECURSIVE strip(_)
strip(s) ==
    IF s = <<>> THEN s
    ELSE IF s[1] = " " THEN strip(SubSeq(s, 2, Len(s)))
    ELSE IF s[Len(s)] = " " THEN strip(SubSeq(s, 1, Len(s) - 1))
    ELSE s

\* Mutant: the blank entries are kept in the allow-list.
AccountIdsConfigKeepsBlankEntries(account_ids_str) ==
    IF account_ids_str.t = "str" /\ account_ids_str.chars # <<>>
    THEN {strip(split(account_ids_str.chars)[k]) :
             k \in 1..Len(split(account_ids_str.chars))}
    ELSE {}

\* The allow-list of streams.py:148-151: empty unless config["account_ids"] is a
\* non-empty string, and then the stripped non-blank pieces of it.
AccountIdsConfig(account_ids_str) ==
    IF account_ids_str.t = "str" /\ account_ids_str.chars # <<>>
    THEN {strip(split(account_ids_str.chars)[k]) :
             k \in {k \in 1..Len(split(account_ids_str.chars)) :
                        strip(split(account_ids_str.chars)[k]) # <<>>}}
    ELSE {}

\* Mutant: the allow-list is not consulted.
AccountKeptWhateverTheAllowList(account, allowed) == Truthy(account.id)

\* The test of streams.py:153-157 on one account of the listing: it is kept when its id
\* is truthy and, with a non-empty allow-list, str(id) is in the allow-list.
AccountKept(account, allowed) ==
    /\ Truthy(account.id)
    /\ ~(allowed # {} /\ str(account.id.n) \notin allowed)

\* ------------------------------------------------------------------ requests

StreamNames ==
    {"accounts", "campaigns", "creative_stats", "location_zipcode_stats",
     "location_dma_stats", "campaign_publisher_stats", "campaign_demographic_stats"}

MetricsStreams == StreamNames \ {"accounts", "campaigns"}

NoRequest == [kind |-> "none", account |-> <<>>, campaign |-> 0, start_date |-> PyNone,
              end_date |-> PyNone, status |-> 0]

\* GET {RESOURCE_API_BASE}/organizations/{org_id}/accounts
AccountsRequest ==
    [kind |-> "accounts", account |-> <<>>, campaign |-> 0, start_date |-> PyNone,
     end_date |-> PyNone, status |-> 0]

\* GET {RESOURCE_API_BASE}/campaigns with header X-GT-ACCOUNT-ID: str(account_id)
CampaignsRequest(id) ==
    [kind |-> "campaigns", account |-> str(id.n), campaign |-> 0, start_date |-> PyNone,
     end_date |-> PyNone, status |-> 0]

\* get_with_retry(url, ...) is entered: the server will answer its attempts with what
\* is left of the outage and then with a 200.
BeginCall(req) ==
    /\ request' = req
    /\ responses' = outage \o <<HttpResponse(200)>>
    /\ attempt_number' = 0
    /\ sleeps' = <<>>
    /\ result' = NoResult

\* The answers of the outage still to come once the current call has ended: each
\* attempt of the call has taken one, as long as there were any.
OutageLeft ==
    LET used == Min(attempt_number, Len(outage))
    IN  SubSeq(outage, used + 1, Len(outage))

\* ------------------------------------------------------------------ get_records: accounts

\* The generator is started: config["organization_id"] and the accounts request
\* (streams.py:128-136, 257-265, 327-335, 402-408, 508-514, 625-631).
StartRun ==
    /\ pc = "start"
    /\ IF config.organization_id.t = "none"
       THEN /\ pc' = "failed"
            /\ error' = "KeyError"
            /\ UNCHANGED <<retryVars, request>>
       ELSE /\ pc' = "accounts_call"
            /\ error' = error
            /\ BeginCall(AccountsRequest)
    /\ UNCHANGED <<statistics, scheduleVars>>
    /\ UNCHANGED <<requests, inputVars, outage, accounts, account_ids_config, ai, account_id,
                   campaigns, ci, campaign, end_date, current_start, current_end, records,
                   ri, emitted>>

\* The accounts call has ended: the error propagates, or the body is decoded,
\* .get("accounts", []) is taken and the allow-list is built (streams.py:136-151).
AccountsFetched ==
    /\ pc = "accounts_call"
    /\ result.kind # "none"
    /\ outage' = OutageLeft
    /\ IF result.kind = "raise"
       THEN /\ pc' = "failed"
            /\ error' = result.exc.type
            /\ UNCHANGED <<accounts, account_ids_config>>
       ELSE IF ~server.accounts.json
       THEN /\ pc' = "failed"
            /\ error' = "JSONDecodeError"
            /\ UNCHANGED <<accounts, account_ids_config>>
       ELSE /\ pc' = "account_loop"
            /\ error' = error
            /\ accounts' = (IF server.accounts.key THEN server.accounts.list ELSE <<>>)
            /\ account_ids_config' = AccountIdsConfig(config.account_ids)
    /\ UNCHANGED <<statistics, scheduleVars>>
    /\ UNCHANGED <<retryVars, request, requests, inputVars, ai, account_id, campaigns, ci,
                   campaign, end_date, current_start, current_end, records, ri, emitted>>

\* account_out of AccountsStream (streams.py:358-362): a dict status becomes its str().
AccountOut(account) ==
    [account EXCEPT !.status =
        IF account.status.t = "dict" THEN PyStr("text", account.status.n)
        ELSE account.status]

\* One turn of `for account in accounts` (streams.py:152-163, 351-363): the loop ends,
\* or the account is skipped, or (accounts stream) it is yielded, or its campaigns are
\* requested.
NextAccount ==
    /\ pc = "account_loop"
    /\ IF ai = Len(accounts)
       THEN /\ pc' = "done"
            /\ UNCHANGED <<retryVars, request, ai, account_id, emitted>>
       ELSE LET account == accounts[ai + 1]
            IN  /\ ai' = ai + 1
                /\ IF ~AccountKept(account, account_ids_config)
                   THEN UNCHANGED <<retryVars, request, pc, account_id, emitted>>
                   ELSE IF stream = "accounts"
                   THEN /\ emitted' = Append(emitted, AccountOut(account))
                        /\ UNCHANGED <<retryVars, request, pc, account_id>>
                   ELSE /\ account_id' = account.id
                        /\ pc' = "campaigns_call"
                        /\ BeginCall(CampaignsRequest(account.id))
                        /\ emitted' = emitted
    /\ UNCHANGED <<statistics, scheduleVars>>
    /\ UNCHANGED <<requests, inputVars, outage, accounts, account_ids_config, campaigns, ci,
                   campaign, end_date, current_start, current_end, records, ri, error>>

\* The campaigns call has ended: the error propagates, or the body is decoded and
\* .get("campaigns", []) is taken (streams.py:163-173).
CampaignsFetched ==
    /\ pc = "campaigns_call"
    /\ result.kind # "none"
    /\ outage' = OutageLeft
    /\ IF result.kind = "raise"
       THEN /\ pc' = "failed"
            /\ error' = result.exc.type
            /\ UNCHANGED <<campaigns, ci>>
       ELSE IF ~server.campaigns.json
       THEN /\ pc' = "failed"
            /\ error' = "JSONDecodeError"
            /\ UNCHANGED <<campaigns, ci>>
       ELSE /\ pc' = "campaign_loop"
            /\ error' = error
            /\ campaigns' = (IF server.campaigns.key THEN server.campaigns.list ELSE <<>>)
            /\ ci' = 0
    /\ UNCHANGED <<statistics, scheduleVars>>
    /\ UNCHANGED <<retryVars, request, requests, inputVars, accounts, account_ids_config, ai,
                   account_id, campaign, end_date, current_start, current_end, records, ri,
                   emitted>>

\* ------------------------------------------------------------------ dates

\* datetime.datetime.strptime(v, "%Y-%m-%d"): the day, or ValueError unless the whole
\* string is a plain calendar date (TypeError when v is no string).
strptime_date(v) ==
    IF v.t # "str" THEN [ok |-> FALSE, day |-> 0, error |-> "TypeError"]
    ELSE IF v.fmt = "%Y-%m-%d" THEN [ok |-> TRUE, day |-> v.n, error |-> "none"]
    ELSE [ok |-> FALSE, day |-> 0, error |-> "ValueError"]

\* _parse_date (streams.py:107-114): the full "%Y-%m-%dT%H:%M:%SZ" form first, then
\* the first 10 characters as a plain date.
parse_date(v) ==
    IF v.t # "str" THEN [ok |-> FALSE, day |-> 0, error |-> "TypeError"]
    ELSE IF v.fmt = "%Y-%m-%dT%H:%M:%SZ" THEN [ok |-> TRUE, day |-> v.n, error |-> "none"]
    ELSE IF v.fmt \in {"%Y-%m-%d", "%Y-%m-%dT%H:%M:%S"}
    THEN [ok |-> TRUE, day |-> v.n, error |-> "none"]
    ELSE [ok |-> FALSE, day |-> 0, error |-> "ValueError"]

\* How a stream parses config["start_date"] and config["end_date"]: creative_stats
\* through _parse_date (streams.py:189, 193), the others through strptime "%Y-%m-%d"
\* (streams.py:438, 441).
ParseConfigDate(v) ==
    IF stream = "creative_stats" THEN parse_date(v) ELSE strptime_date(v)

\* d.strftime("%Y-%m-%d")
strftime(d) == PyStr("%Y-%m-%d", d)

\* Mutant: the parsed date is kept as a datetime, whose isoformat() has a time of day.
date_isoformat_of_datetime(d) == PyStr("%Y-%m-%dT%H:%M:%S", d)

\* datetime.date.isoformat() of the date parsed from the record (streams.py:219-225)
date_isoformat(d) == PyStr("%Y-%m-%d", d)

\* Mutant: the window's start is rendered as a date, without the time of day.
datetime_isoformat_without_time(d) == PyStr("%Y-%m-%d", d)

\* datetime.datetime.combine(d, datetime.time.min).isoformat()
datetime_isoformat(d) == PyStr("%Y-%m-%dT%H:%M:%S", d)

\* int(self.config.get("lookback_days", 7))
DefaultLookbackDays == 7

lookback_days ==
    IF config.lookback_days.t = "none" THEN DefaultLookbackDays ELSE config.lookback_days.n

\* Mutant: once records are out, the anchor start is taken from the latest date
\* emitted so far and not from the starting timestamp of the run.
StartDateFromLatestRecord ==
    LET days == {emitted[i].date.n : i \in 1..Len(emitted)}
        latest == CHOOSE d \in days : \A o \in days : o <= d
    IN  IF Truthy(starting_timestamp)
        THEN [ok |-> TRUE,
              day |-> (IF emitted = <<>> THEN starting_timestamp.n ELSE latest)
                          - lookback_days,
              error |-> "none"]
        ELSE IF config.start_date.t = "none"
        THEN [ok |-> FALSE, day |-> 0, error |-> "KeyError"]
        ELSE ParseConfigDate(config.start_date)

\* Mutant: the anchor start is clamped to the configured start_date.
StartDateNotBeforeConfigured ==
    IF Truthy(starting_timestamp)
    THEN [ok |-> TRUE,
          day |-> IF config.start_date.t = "str"
                  THEN Max(starting_timestamp.n - lookback_days, config.start_date.n)
                  ELSE starting_timestamp.n - lookback_days,
          error |-> "none"]
    ELSE IF config.start_date.t = "none"
    THEN [ok |-> FALSE, day |-> 0, error |-> "KeyError"]
    ELSE ParseConfigDate(config.start_date)

\* streams.py:185-189: the anchor start of a campaign's windows. With a starting
\* timestamp it is that day minus the lookback; without, the configured start_date,
\* which must be there and parse.
StartDate ==
    IF Truthy(starting_timestamp)
    THEN [ok |-> TRUE, day |-> starting_timestamp.n - lookback_days, error |-> "none"]
    ELSE IF config.start_date.t = "none"
    THEN [ok |-> FALSE, day |-> 0, error |-> "KeyError"]
    ELSE ParseConfigDate(config.start_date)

\* streams.py:191-195: the configured end_date when there is one, else today.
EndDate ==
    IF Truthy(config.end_date)
    THEN ParseConfigDate(config.end_date)
    ELSE [ok |-> TRUE, day |-> today, error |-> "none"]

\* chunk_size: 7 days for creative_stats (streams.py:197), 1 day for the others.
CreativeChunkDays == 7

DailyChunkDays == 1

\* Mutant: the last window is not cut at end_date.
CurrentEndNotCut(start, end) ==
    IF stream = "creative_stats" THEN start + CreativeChunkDays - 1 ELSE start

\* current_end (streams.py:200; 448, 555, 672: current_end = current_start)
CurrentEnd(start, end) ==
    IF stream = "creative_stats"
    THEN Min(start + CreativeChunkDays - 1, end)
    ELSE start

\* Mutant: the next window starts on the last day of the one before.
NextStartOnWindowEnd(start, end) ==
    IF stream = "creative_stats" THEN end ELSE start + DailyChunkDays

\* The start of the next window (streams.py:231: current_end + 1 day; 469, 583, 702:
\* current_start + chunk_size).
NextStart(start, end) ==
    IF stream = "creative_stats" THEN end + 1 ELSE start + DailyChunkDays

\* GET {url_base}/creatives/{campaign_id}/daily (and the locations, publisher and
\* demographic endpoints) with params start_date and end_date.
StatsRequest(id, start, end) ==
    [kind |-> "stats", account |-> <<>>, campaign |-> id.n, start_date |-> strftime(start),
     end_date |-> strftime(end), status |-> 0]

\* ------------------------------------------------------------------ get_records: campaigns and windows

\* One turn of `for campaign in campaigns`. The campaigns stream yields the campaign
\* with account_id set (streams.py:303-306). A metrics stream skips a campaign with
\* no id and else computes the date range (streams.py:174-198).
NextCampaign ==
    /\ pc = "campaign_loop"
    /\ IF ci = Len(campaigns)
       THEN /\ pc' = "account_loop"
            /\ UNCHANGED <<ci, campaign, end_date, current_start, emitted, error>>
       ELSE LET c == campaigns[ci + 1]
            IN  /\ ci' = ci + 1
                /\ IF stream = "campaigns"
                   THEN /\ emitted' = Append(emitted, [c EXCEPT !.account_id = account_id])
                        /\ UNCHANGED <<pc, campaign, end_date, current_start, error>>
                   ELSE IF ~Truthy(c.id)
                   THEN UNCHANGED <<pc, campaign, end_date, current_start, emitted, error>>
                   ELSE IF ~StartDate.ok
                   THEN /\ pc' = "failed"
                        /\ error' = StartDate.error
                        /\ UNCHANGED <<campaign, end_date, current_start, emitted>>
                   ELSE IF ~EndDate.ok
                   THEN /\ pc' = "failed"
                        /\ error' = EndDate.error
                        /\ UNCHANGED <<campaign, end_date, current_start, emitted>>
                   ELSE /\ campaign' = c
                        /\ current_start' = StartDate.day
                        /\ end_date' = EndDate.day
                        /\ pc' = "window_loop"
                        /\ UNCHANGED <<emitted, error>>
    /\ UNCHANGED <<statistics, scheduleVars>>
    /\ UNCHANGED <<retryVars, request, requests, inputVars, outage, accounts,
                   account_ids_config, ai, account_id, campaigns, current_end, records, ri>>

\* Mutant: the first window of a campaign is requested whatever the end date is.
WhileFirstWindowOrInRange(start, end) == start = StartDate.day \/ start <= end

\* while current_start <= end_date (streams.py:199, 446, 553, 670)
WhileInRange(start, end) == start <= end

\* The test of `while current_start <= end_date` (streams.py:199-208): the next
\* window is requested, or the campaign's windows are over.
NextWindow ==
    /\ pc = "window_loop"
    /\ IF WhileInRange(current_start, end_date)
       THEN /\ current_end' = CurrentEnd(current_start, end_date)
            /\ BeginCall(StatsRequest(campaign.id, current_start,
                                      CurrentEnd(current_start, end_date)))
            /\ pc' = "stats_call"
       ELSE /\ pc' = "campaign_loop"
            /\ UNCHANGED <<retryVars, request, current_end>>
    /\ UNCHANGED <<statistics, scheduleVars>>
    /\ UNCHANGED <<requests, inputVars, outage, accounts, account_ids_config, ai, account_id,
                   campaigns, ci, campaign, end_date, current_start, records, ri, emitted,
                   error>>

\* Mutant: a window whose fetch failed or whose body is not JSON is skipped as if it
\* held no records (the except clause logs and does not re-raise).
StatsFetchedSkipsFailedWindow ==
    /\ pc = "stats_call"
    /\ result.kind # "none"
    /\ outage' = OutageLeft
    /\ pc' = "record_loop"
    /\ error' = error
    /\ records' = (IF result.kind = "raise" \/ ~server.stats.json THEN <<>>
                   ELSE server.stats.list)
    /\ ri' = 0
    /\ UNCHANGED <<statistics, scheduleVars>>
    /\ UNCHANGED <<retryVars, request, requests, inputVars, accounts, account_ids_config, ai,
                   account_id, campaigns, ci, campaign, end_date, current_start, current_end,
                   emitted>>

\* Mutant: a body that is not a list is taken for no records.
RecordsOfListOnly(body) == IF body.shape = "dict" THEN <<>> ELSE body.list

\* records = stats_response.json(); if isinstance(records, dict): records = [records]
\* (streams.py:568-570, 687-689). A body of shape "dict" holds its one object in list.
RecordsOf(body) == IF body.shape = "dict" THEN <<body.list[1]>> ELSE body.list

\* The stats call has ended: the error propagates, or the body is decoded
\* (streams.py:208-214). A single object is wrapped into a list by the publisher and
\* demographic streams (streams.py:569-570); the other streams iterate over it, get its
\* keys and fail on record["date"] of the first one.
StatsFetched ==
    /\ pc = "stats_call"
    /\ result.kind # "none"
    /\ outage' = OutageLeft
    /\ IF result.kind = "raise"
       THEN /\ pc' = "failed"
            /\ error' = result.exc.type
            /\ UNCHANGED <<records, ri>>
       ELSE IF ~server.stats.json
       THEN /\ pc' = "failed"
            /\ error' = "JSONDecodeError"
            /\ UNCHANGED <<records, ri>>
       ELSE IF server.stats.shape = "dict"
               /\ stream \notin {"campaign_publisher_stats", "campaign_demographic_stats"}
       THEN /\ pc' = "failed"
            /\ error' = "TypeError"
            /\ UNCHANGED <<records, ri>>
       ELSE /\ pc' = "record_loop"
            /\ error' = error
            /\ records' = RecordsOf(server.stats)
            /\ ri' = 0
    /\ UNCHANGED <<statistics, scheduleVars>>
    /\ UNCHANGED <<retryVars, request, requests, inputVars, accounts, account_ids_config, ai,
                   account_id, campaigns, ci, campaign, end_date, current_start, current_end,
                   emitted>>

\* ------------------------------------------------------------------ get_records: records

\* Mutant: the 1-day streams set the window's day only on a record that has no date
\* of its own.
NormalizeKeepsPayloadDate(record) ==
    LET stamped == IF record.date.t = "absent" THEN datetime_isoformat(current_start)
                   ELSE record.date
    IN  IF stream = "creative_stats"
        THEN IF record.date.t = "absent"
             THEN [ok |-> FALSE, record |-> record, error |-> "KeyError"]
             ELSE IF record.date.t = "str"
             THEN IF strptime_date(record.date).ok
                  THEN [ok |-> TRUE,
                        record |-> [record EXCEPT
                                        !.date = date_isoformat(strptime_date(record.date).day)],
                        error |-> "none"]
                  ELSE [ok |-> FALSE, record |-> record,
                        error |-> strptime_date(record.date).error]
             ELSE [ok |-> TRUE, record |-> record, error |-> "none"]
        ELSE IF stream \in {"location_zipcode_stats", "location_dma_stats"}
        THEN [ok |-> TRUE, record |-> [record EXCEPT !.date = stamped], error |-> "none"]
        ELSE [ok |-> TRUE,
              record |-> [record EXCEPT !.date = stamped,
                                        !.campaign_id = campaign.id,
                                        !.campaign_name =
                                            IF campaign.name.t = "absent" THEN PyNone
                                            ELSE campaign.name],
              error |-> "none"]

\* What the loop body makes of one record before it yields it. creative_stats
\* (streams.py:215-225) reads record["date"], parses a string date with strptime
\* "%Y-%m-%d" and renders the date with isoformat(). The location streams
\* (streams.py:464-467) overwrite date with the window's start at midnight, rendered
\* with isoformat(); the publisher and demographic streams (streams.py:572-577) also
\* overwrite campaign_id and campaign_name.
Normalize(record) ==
    IF stream = "creative_stats"
    THEN IF record.date.t = "absent"
         THEN [ok |-> FALSE, record |-> record, error |-> "KeyError"]
         ELSE IF record.date.t = "str"
         THEN IF strptime_date(record.date).ok
              THEN [ok |-> TRUE,
                    record |-> [record EXCEPT
                                    !.date = date_isoformat(strptime_date(record.date).day)],
                    error |-> "none"]
              ELSE [ok |-> FALSE, record |-> record, error |-> strptime_date(record.date).error]
         ELSE [ok |-> TRUE, record |-> record, error |-> "none"]
    ELSE IF stream \in {"location_zipcode_stats", "location_dma_stats"}
    THEN [ok |-> TRUE,
          record |-> [record EXCEPT !.date = datetime_isoformat(current_start)],
          error |-> "none"]
    ELSE [ok |-> TRUE,
          record |-> [record EXCEPT !.date = datetime_isoformat(current_start),
                                    !.campaign_id = campaign.id,
                                    !.campaign_name =
                                        IF campaign.name.t = "absent" THEN PyNone
                                        ELSE campaign.name],
          error |-> "none"]

\* Mutant: the loop moves on to the next window while the last record of this one
\* is still to be pulled.
NextRecordLeavesEarly ==
    /\ pc = "record_loop"
    /\ IF ri + 1 >= Len(records)
       THEN /\ current_start' = NextStart(current_start, current_end)
            /\ pc' = "window_loop"
            /\ UNCHANGED <<ri, emitted, error>>
       ELSE LET out == Normalize(records[ri + 1])
            IN  /\ ri' = ri + 1
                /\ current_start' = current_start
                /\ IF out.ok
                   THEN /\ emitted' = Append(emitted, out.record)
                        /\ UNCHANGED <<pc, error>>
                   ELSE /\ pc' = "failed"
                        /\ error' = out.error
                        /\ emitted' = emitted
    /\ UNCHANGED <<statistics, scheduleVars>>
    /\ UNCHANGED <<retryVars, request, requests, inputVars, outage, accounts,
                   account_ids_config, ai, account_id, campaigns, ci, campaign, end_date,
                   current_end, records>>

\* One turn of `for record in ...` (streams.py:214-231): the record is normalized and
\* yielded, or normalizing it fails; after the last record the window advances.
NextRecord ==
    /\ pc = "record_loop"
    /\ IF ri = Len(records)
       THEN /\ current_start' = NextStart(current_start, current_end)
            /\ pc' = "window_loop"
            /\ UNCHANGED <<ri, emitted, error>>
       ELSE LET out == Normalize(records[ri + 1])
            IN  /\ ri' = ri + 1
                /\ current_start' = current_start
                /\ IF out.ok
                   THEN /\ emitted' = Append(emitted, out.record)
                        /\ UNCHANGED <<pc, error>>
                   ELSE /\ pc' = "failed"
                        /\ error' = out.error
                        /\ emitted' = emitted
    /\ UNCHANGED <<statistics, scheduleVars>>
    /\ UNCHANGED <<retryVars, request, requests, inputVars, outage, accounts,
                   account_ids_config, ai, account_id, campaigns, ci, campaign, end_date,
                   current_end, records>>

NextRun ==
    \/ StartRun
    \/ Attempt
    \/ AccountsFetched
    \/ NextAccount
    \/ CampaignsFetched
    \/ NextCampaign
    \/ NextWindow
    \/ StatsFetched
    \/ NextRecord

\* ------------------------------------------------------------------ specifications

\* All scripts of exactly n server answers.
RECURSIVE Scripts(_)
Scripts(n) ==
    IF n = 0 THEN {<<>>}
    ELSE {Append(s, a) : s \in Scripts(n - 1), a \in ServerAnswers}

\* A single run: there is no other run to interleave with.
OneRun ==
    /\ statistics = NoStatistics
    /\ phase = "alone"
    /\ active = 1
    /\ initial = <<>>
    /\ alone = <<>>
    /\ other = <<>>

\* The state of a generator that has not been started.
NotStarted ==
    /\ responses = <<>>
    /\ attempt_number = 0
    /\ sleeps = <<>>
    /\ result = NoResult
    /\ request = NoRequest
    /\ requests = <<>>
    /\ pc = "start"
    /\ accounts = <<>>
    /\ account_ids_config = {}
    /\ ai = 0
    /\ account_id = PyNone
    /\ campaigns = <<>>
    /\ ci = 0
    /\ campaign = [id |-> PyAbsent, name |-> PyAbsent, account_id |-> PyAbsent]
    /\ end_date = 0
    /\ current_start = 0
    /\ current_end = 0
    /\ records = <<>>
    /\ ri = 0
    /\ emitted = <<>>
    /\ error = "none"

Account(id, status) == [id |-> id, status |-> status]

Campaign(id, name) == [id |-> id, name |-> name, account_id |-> PyAbsent]

MetricRecord(date, impressions) ==
    [date |-> date, impressions |-> impressions, campaign_id |-> PyAbsent,
     campaign_name |-> PyAbsent]

Listing(list) == [json |-> TRUE, key |-> TRUE, list |-> list]

StatsBody(list) == [json |-> TRUE, shape |-> "list", list |-> list]

Config(start, end, ids, lookback) ==
    [organization_id |-> PyStr("text", 1), start_date |-> start, end_date |-> end,
     account_ids |-> ids, lookback_days |-> lookback]

NoAccountIds == [t |-> "none", chars |-> <<>>]

AccountIds(chars) == [t |-> "str", chars |-> chars]

\* A single call of get_with_retry against every script of answers.
InitRetry ==
    /\ OneRun
    /\ responses \in Scripts(ScriptLen)
    /\ attempt_number = 0
    /\ sleeps = <<>>
    /\ result = NoResult
    /\ request = AccountsRequest
    /\ requests = <<>>
    /\ stream = "accounts"
    /\ config = Config(PyNone, PyNone, NoAccountIds, PyNone)
    /\ starting_timestamp = PyNone
    /\ today = 0
    /\ server = [accounts |-> Listing(<<>>), campaigns |-> Listing(<<>>),
                 stats |-> StatsBody(<<>>)]
    /\ outage = <<>>
    /\ pc = "call"
    /\ accounts = <<>>
    /\ account_ids_config = {}
    /\ ai = 0
    /\ account_id = PyNone
    /\ campaigns = <<>>
    /\ ci = 0
    /\ campaign = Campaign(PyAbsent, PyAbsent)
    /\ end_date = 0
    /\ current_start = 0
    /\ current_end = 0
    /\ records = <<>>
    /\ ri = 0
    /\ emitted = <<>>
    /\ error = "none"

NextRetry == Attempt

SpecRetry == InitRetry /\ [][NextRetry]_vars

\* ---- runs over account listings and allow-lists

\* Longest account_ids string tried.
MaxAccountIdsLen == 4

AccountIdsAlphabet == {"2", "3", ",", " "}

RECURSIVE StringsUpTo(_)
StringsUpTo(n) ==
    IF n = 0 THEN {<<>>}
    ELSE StringsUpTo(n - 1) \cup
         {Append(w, c) : w \in {w \in StringsUpTo(n - 1) : Len(w) = n - 1},
                         c \in AccountIdsAlphabet}

AccountListings ==
    {<<Account(PyInt(1), PyDict(1)), Account(PyInt(2), PyStr("text", 2)),
       Account(PyInt(3), PyAbsent)>>,
     <<Account(PyAbsent, PyDict(1)), Account(PyInt(23), PyDict(2)),
       Account(PyInt(0), PyDict(3)), Account(PyInt(2), PyDict(4))>>}

InitFilter ==
    /\ NotStarted
    /\ OneRun
    /\ stream \in StreamNames
    /\ \E ids \in {NoAccountIds} \cup {AccountIds(w) : w \in StringsUpTo(MaxAccountIdsLen)} :
           config = Config(PyStr("%Y-%m-%d", 10), PyStr("%Y-%m-%d", 10), ids, PyNone)
    /\ starting_timestamp = PyNone
    /\ today = 20
    /\ \E list \in AccountListings :
           server = [accounts |-> Listing(list),
                     campaigns |-> Listing(<<Campaign(PyInt(100), PyStr("text", 100))>>),
                     stats |-> StatsBody(<<MetricRecord(PyStr("%Y-%m-%d", 10), PyInt(5))>>)]
    /\ outage = <<>>

SpecFilter == InitFilter /\ [][NextRun]_vars

\* ---- runs over campaign listings

CampaignListings ==
    {<<Campaign(PyInt(100), PyStr("text", 100)), Campaign(PyInt(200), PyAbsent)>>,
     <<Campaign(PyAbsent, PyStr("text", 1)), Campaign(PyInt(100), PyStr("text", 100))>>,
     <<Campaign(PyInt(100), PyStr("text", 100)), Campaign(PyNone, PyStr("text", 2)),
       Campaign(PyInt(0), PyStr("text", 3))>>,
     <<>>}

TwoAccounts == <<Account(PyInt(10), PyDict(1)), Account(PyInt(20), PyDict(2))>>

InitCampaigns ==
    /\ NotStarted
    /\ OneRun
    /\ stream \in StreamNames
    /\ config = Config(PyStr("%Y-%m-%d", 10), PyStr("%Y-%m-%d", 10), NoAccountIds, PyNone)
    /\ starting_timestamp = PyNone
    /\ today = 20
    /\ \E list \in CampaignListings :
           server = [accounts |-> Listing(TwoAccounts),
                     campaigns |-> Listing(list),
                     stats |-> StatsBody(<<MetricRecord(PyStr("%Y-%m-%d", 10), PyInt(5))>>)]
    /\ outage = <<>>

SpecCampaigns == InitCampaigns /\ [][NextRun]_vars

\* ---- runs over date ranges, bookmarks and lookbacks

\* datetime.date.today() in the runs over date ranges, as a day number.
Today == 20

ConfiguredStartDates ==
    {PyStr("%Y-%m-%d", 1), PyStr("%Y-%m-%d", 9), PyStr("%Y-%m-%dT%H:%M:%SZ", 9)}

ConfiguredEndDates ==
    {PyNone, PyStr("%Y-%m-%d", 5), PyStr("%Y-%m-%d", 10), PyStr("%Y-%m-%d", 16)}

StartingTimestamps == {PyNone, PyValue("datetime", 10, ""), PyValue("datetime", 12, "")}

ConfiguredLookbacks == {PyNone, PyInt(0), PyInt(3)}

InitDates ==
    /\ NotStarted
    /\ OneRun
    /\ stream \in MetricsStreams
    /\ \E start \in ConfiguredStartDates, end \in ConfiguredEndDates,
          lookback \in ConfiguredLookbacks :
           config = Config(start, end, NoAccountIds, lookback)
    /\ starting_timestamp \in StartingTimestamps
    /\ today = Today
    /\ server = [accounts |-> Listing(<<Account(PyInt(10), PyDict(1))>>),
                 campaigns |-> Listing(<<Campaign(PyInt(100), PyStr("text", 100)),
                                         Campaign(PyInt(200), PyStr("text", 200))>>),
                 stats |-> StatsBody(<<MetricRecord(PyStr("%Y-%m-%d", 10), PyInt(5))>>)]
    /\ outage = <<>>

SpecDates == InitDates /\ [][NextRun]_vars

\* ---- runs over response bodies

\* Longest list of records a stats response holds.
MaxRecords == 2

RawDates ==
    {PyStr("%Y-%m-%d", 1), PyStr("%Y-%m-%dT%H:%M:%SZ", 1), PyStr("%Y-%m-%dT%H:%M:%S", 1),
     PyStr("text", 0), PyAbsent, PyNone, PyInt(5)}

RawRecords ==
    {[date |-> d, impressions |-> PyInt(5), campaign_id |-> c, campaign_name |-> c] :
        d \in RawDates, c \in {PyAbsent, PyInt(999)}}

RECURSIVE RecordLists(_)
RecordLists(n) ==
    IF n = 0 THEN {<<>>}
    ELSE RecordLists(n - 1) \cup
         {Append(l, r) : l \in {l \in RecordLists(n - 1) : Len(l) = n - 1}, r \in RawRecords}

StatsBodies ==
    {StatsBody(l) : l \in RecordLists(MaxRecords)}
    \cup {[json |-> TRUE, shape |-> "dict", list |-> <<r>>] : r \in RawRecords}
    \cup {[json |-> FALSE, shape |-> "list", list |-> <<>>]}

InitRecords ==
    /\ NotStarted
    /\ OneRun
    /\ stream \in MetricsStreams
    /\ config = Config(PyStr("%Y-%m-%d", 1),
                       IF stream = "creative_stats" THEN PyStr("%Y-%m-%d", 7)
                       ELSE PyStr("%Y-%m-%d", 2),
                       NoAccountIds, PyNone)
    /\ starting_timestamp = PyNone
    /\ today = Today
    /\ \E body \in StatsBodies :
           server = [accounts |-> Listing(<<Account(PyInt(10), PyDict(1))>>),
                     campaigns |-> Listing(<<Campaign(PyInt(100), PyStr("text", 100))>>),
                     stats |-> body]
    /\ outage = <<>>

SpecRecords == InitRecords /\ [][NextRun]_vars

\* ---- runs over configurations with and without the fields the code reads by key

\* self.config["organization_id"] (streams.py:128) and self.config["start_date"]
\* (streams.py:189) are read by key; a field that is not in the configuration is PyNone.
ConfiguredOrganizations == {PyNone, PyStr("text", 1)}

InitConfig ==
    /\ NotStarted
    /\ OneRun
    /\ stream \in StreamNames
    /\ \E org \in ConfiguredOrganizations, start \in {PyNone, PyStr("%Y-%m-%d", 10)},
          end \in {PyNone, PyStr("%Y-%m-%d", 12)} :
           config = [Config(start, end, NoAccountIds, PyNone) EXCEPT !.organization_id = org]
    /\ starting_timestamp \in {PyNone, PyValue("datetime", 11, "")}
    /\ today = Today
    /\ \E list \in {<<>>, <<Campaign(PyInt(100), PyStr("text", 100))>>} :
           server = [accounts |-> Listing(<<Account(PyInt(10), PyDict(1))>>),
                     campaigns |-> Listing(list),
                     stats |-> StatsBody(<<MetricRecord(PyStr("%Y-%m-%d", 10), PyInt(5))>>)]
    /\ outage = <<>>

SpecConfig == InitConfig /\ [][NextRun]_vars

\* ---- runs over listing bodies

\* A 2xx listing body without the expected key: response.json() gives a dict in which
\* .get("accounts", []) or .get("campaigns", []) finds nothing (streams.py:142, 169).
KeylessListing == [json |-> TRUE, key |-> FALSE, list |-> <<>>]

\* A 2xx listing body that is not JSON: response.json() raises (streams.py:141, 168).
UndecodableListing == [json |-> FALSE, key |-> FALSE, list |-> <<>>]

InitListings ==
    /\ NotStarted
    /\ OneRun
    /\ stream \in StreamNames
    /\ config = Config(PyStr("%Y-%m-%d", 10), PyStr("%Y-%m-%d", 11), NoAccountIds, PyNone)
    /\ starting_timestamp = PyNone
    /\ today = Today
    /\ \E a \in {Listing(TwoAccounts), KeylessListing, UndecodableListing},
          c \in {Listing(<<Campaign(PyInt(100), PyStr("text", 100))>>), KeylessListing,
                 UndecodableListing} :
           server = [accounts |-> a, campaigns |-> c,
                     stats |-> StatsBody(<<MetricRecord(PyStr("%Y-%m-%d", 10), PyInt(5))>>)]
    /\ outage = <<>>

SpecListings == InitListings /\ [][NextRun]_vars

\* ---- runs over server outages

\* The most attempts the server answers with a 200 before an outage begins.
MaxHealthyAttempts == 6

\* n times the answer a.
RECURSIVE Repeat(_, _)
Repeat(a, n) == IF n = 0 THEN <<>> ELSE Append(Repeat(a, n - 1), a)

\* What the server answers during an outage: as many failures as get_with_retry makes
\* attempts (streams.py:31), of one kind or mixed, or fewer.
Outages ==
    {<<>>,
     Repeat(HttpResponse(500), MaxAttemptNumber),
     Repeat(HttpResponse(404), MaxAttemptNumber),
     <<TransportFailure, HttpResponse(429), HttpResponse(500), TransportFailure,
       HttpResponse(500)>>,
     <<HttpResponse(500), TransportFailure>>}

\* The body of one of the three kinds of response is not JSON, or none is.
ServerBodies ==
    LET good == [accounts |-> Listing(TwoAccounts),
                 campaigns |-> Listing(<<Campaign(PyInt(100), PyStr("text", 100))>>),
                 stats |-> StatsBody(<<MetricRecord(PyStr("%Y-%m-%d", 10), PyInt(5))>>)]
    IN  {good,
         [good EXCEPT !.accounts = UndecodableListing],
         [good EXCEPT !.campaigns = UndecodableListing],
         [good EXCEPT !.stats = [json |-> FALSE, shape |-> "list", list |-> <<>>]]}

InitFailures ==
    /\ NotStarted
    /\ OneRun
    /\ stream \in StreamNames
    /\ config = Config(PyStr("%Y-%m-%d", 10), PyStr("%Y-%m-%d", 11), NoAccountIds, PyNone)
    /\ starting_timestamp = PyNone
    /\ today = Today
    /\ server \in ServerBodies
    /\ \E k \in 0..MaxHealthyAttempts, o \in Outages :
           outage = Repeat(HttpResponse(200), k) \o o

SpecFailures == InitFailures /\ [][NextRun]_vars

\* ---- runs over walks with failures that the retries get over

\* Fewer failures than get_with_retry makes attempts (streams.py:31), at the first
\* call or at later ones: no call fails.
TransientOutages ==
    {<<>>,
     <<HttpResponse(500)>>,
     <<HttpResponse(200), HttpResponse(429), TransportFailure>>,
     <<HttpResponse(200), HttpResponse(200), HttpResponse(500), HttpResponse(500)>>}

InitWalk ==
    /\ NotStarted
    /\ OneRun
    /\ stream \in StreamNames
    /\ \E ids \in {NoAccountIds, AccountIds(<<"2", ",", " ", "3">>), AccountIds(<<"2", "3">>),
                   AccountIds(<<",">>)} :
           config = Config(PyStr("%Y-%m-%d", 10), PyStr("%Y-%m-%d", 10), ids, PyNone)
    /\ starting_timestamp = PyNone
    /\ today = Today
    /\ \E list \in AccountListings :
           server = [accounts |-> Listing(list),
                     campaigns |-> Listing(<<Campaign(PyInt(100), PyStr("text", 100)),
                                             Campaign(PyAbsent, PyStr("text", 1))>>),
                     stats |-> StatsBody(<<MetricRecord(PyStr("%Y-%m-%d", 10), PyInt(5))>>)]
    /\ outage \in TransientOutages

SpecWalk == InitWalk /\ [][NextRun]_vars

\* ------------------------------------------------------------------ two runs

\* The state of the active run: the locals of its generator and of its current call of
\* get_with_retry, its inputs and the answers its server still has for it.
LocalState ==
    [responses |-> responses, attempt_number |-> attempt_number, sleeps |-> sleeps,
     result |-> result, request |-> request, requests |-> requests, stream |-> stream,
     config |-> config, starting_timestamp |-> starting_timestamp, today |-> today,
     server |-> server, outage |-> outage, pc |-> pc, accounts |-> accounts,
     account_ids_config |-> account_ids_config, ai |-> ai, account_id |-> account_id,
     campaigns |-> campaigns, ci |-> ci, campaign |-> campaign, end_date |-> end_date,
     current_start |-> current_start, current_end |-> current_end, records |-> records,
     ri |-> ri, emitted |-> emitted, error |-> error]

\* The variables of the active run hold the state l.
Loaded(l) ==
    /\ responses = l.responses
    /\ attempt_number = l.attempt_number
    /\ sleeps = l.sleeps
    /\ result = l.result
    /\ request = l.request
    /\ requests = l.requests
    /\ stream = l.stream
    /\ config = l.config
    /\ starting_timestamp = l.starting_timestamp
    /\ today = l.today
    /\ server = l.server
    /\ outage = l.outage
    /\ pc = l.pc
    /\ accounts = l.accounts
    /\ account_ids_config = l.account_ids_config
    /\ ai = l.ai
    /\ account_id = l.account_id
    /\ campaigns = l.campaigns
    /\ ci = l.ci
    /\ campaign = l.campaign
    /\ end_date = l.end_date
    /\ current_start = l.current_start
    /\ current_end = l.current_end
    /\ records = l.records
    /\ ri = l.ri
    /\ emitted = l.emitted
    /\ error = l.error

\* The variables of the active run take the values of the state l.
Load(l) ==
    /\ responses' = l.responses
    /\ attempt_number' = l.attempt_number
    /\ sleeps' = l.sleeps
    /\ result' = l.result
    /\ request' = l.request
    /\ requests' = l.requests
    /\ stream' = l.stream
    /\ config' = l.config
    /\ starting_timestamp' = l.starting_timestamp
    /\ today' = l.today
    /\ server' = l.server
    /\ outage' = l.outage
    /\ pc' = l.pc
    /\ accounts' = l.accounts
    /\ account_ids_config' = l.account_ids_config
    /\ ai' = l.ai
    /\ account_id' = l.account_id
    /\ campaigns' = l.campaigns
    /\ ci' = l.ci
    /\ campaign' = l.campaign
    /\ end_date' = l.end_date
    /\ current_start' = l.current_start
    /\ current_end' = l.current_end
    /\ records' = l.records
    /\ ri' = l.ri
    /\ emitted' = l.emitted
    /\ error' = l.error

\* The state of a run of stream s that has not been started, against a server that
\* answers its attempts with o and then with 200s.
NewRun(s, o) ==
    [responses |-> <<>>,
     attempt_number |-> 0,
     sleeps |-> <<>>,
     result |-> NoResult,
     request |-> NoRequest,
     requests |-> <<>>,
     stream |-> s,
     config |-> Config(PyStr("%Y-%m-%d", 10), PyStr("%Y-%m-%d", 11), NoAccountIds, PyNone),
     starting_timestamp |-> PyNone,
     today |-> Today,
     server |-> [accounts |-> Listing(<<Account(PyInt(10), PyDict(1))>>),
                campaigns |-> Listing(<<Campaign(PyInt(100), PyStr("text", 100))>>),
                stats |-> StatsBody(<<MetricRecord(PyStr("%Y-%m-%d", 10), PyInt(5))>>)],
     outage |-> o,
     pc |-> "start",
     accounts |-> <<>>,
     account_ids_config |-> {},
     ai |-> 0,
     account_id |-> PyNone,
     campaigns |-> <<>>,
     ci |-> 0,
     campaign |-> [id |-> PyAbsent, name |-> PyAbsent, account_id |-> PyAbsent],
     end_date |-> 0,
     current_start |-> 0,
     current_end |-> 0,
     records |-> <<>>,
     ri |-> 0,
     emitted |-> <<>>,
     error |-> "none"]

\* What a run has done: its requests, attempt by attempt, the records it has yielded
\* and how it ended.
Outcome(l) == [requests |-> l.requests, emitted |-> l.emitted, pc |-> l.pc, error |-> l.error]

Ended(l) == l.pc \in {"done", "failed"}

\* A run by itself has ended: what it did is kept, and the next run starts from its
\* initial state in a process of its own; after the second, both start again to run
\* together.
RunAloneEnds ==
    /\ phase = "alone"
    /\ initial # <<>>
    /\ Ended(LocalState)
    /\ alone' = Append(alone, Outcome(LocalState))
    /\ statistics' = NoStatistics
    /\ IF active = 1
       THEN /\ active' = 2
            /\ phase' = "alone"
            /\ Load(initial[2])
            /\ other' = initial[1]
       ELSE /\ active' = 1
            /\ phase' = "both"
            /\ Load(initial[1])
            /\ other' = initial[2]
    /\ initial' = initial

\* The scheduler takes the active run off and puts the other run on, between two steps:
\* HTTP attempts, decisions of a loop, records pulled. The statistics of the Retrying
\* object stay as the run taken off has left them.
Switch ==
    /\ phase = "both"
    /\ ~Ended(other)
    /\ active' = 3 - active
    /\ other' = LocalState
    /\ Load(other)
    /\ UNCHANGED <<statistics, phase, initial, alone>>

NextRuns ==
    \/ NextRun
    \/ RunAloneEnds
    \/ Switch

\* The streams and the outages of the runs that interleave: no failure, failures the
\* retries get over, and as many failures as a call makes attempts, at the first call
\* or at the second.
StreamsOfRuns == {"accounts", "campaigns", "creative_stats", "campaign_publisher_stats"}

OutagesOfRuns ==
    {<<>>,
     <<HttpResponse(500), TransportFailure>>,
     Repeat(HttpResponse(500), MaxAttemptNumber),
     <<HttpResponse(200)>> \o Repeat(HttpResponse(429), MaxAttemptNumber)}

InitRuns ==
    /\ \E s1 \in StreamsOfRuns, s2 \in StreamsOfRuns, o1 \in OutagesOfRuns,
          o2 \in OutagesOfRuns :
           initial = <<NewRun(s1, o1), NewRun(s2, o2)>>
    /\ Loaded(initial[1])
    /\ other = initial[2]
    /\ phase = "alone"
    /\ active = 1
    /\ alone = <<>>
    /\ statistics = NoStatistics

SpecRuns == InitRuns /\ [][NextRuns]_vars

\* ---- runs over bookmarks, with two accounts of two campaigns each

InitAnchors ==
    /\ NotStarted
    /\ OneRun
    /\ stream \in MetricsStreams
    /\ \E start \in {PyStr("%Y-%m-%d", 1), PyStr("%Y-%m-%d", 9)},
          lookback \in ConfiguredLookbacks :
           config = Config(start, PyStr("%Y-%m-%d", 14), NoAccountIds, lookback)
    /\ starting_timestamp \in StartingTimestamps
    /\ today = Today
    /\ server = [accounts |-> Listing(TwoAccounts),
                 campaigns |-> Listing(<<Campaign(PyInt(100), PyStr("text", 100)),
                                         Campaign(PyInt(200), PyStr("text", 200))>>),
                 stats |-> StatsBody(<<MetricRecord(PyStr("%Y-%m-%d", 10), PyInt(5))>>)]
    /\ outage = <<>>

SpecAnchors == InitAnchors /\ [][NextRun]_vars

\* ---- runs over the shapes of a stats body, with records that can be told apart

\* Longest list of records in the runs over body shapes.
MaxShapeRecords == 3

ShapeRecords == {MetricRecord(PyStr("%Y-%m-%d", 1), PyInt(k)) : k \in 5..7}

RECURSIVE ShapeLists(_)
ShapeLists(n) ==
    IF n = 0 THEN {<<>>}
    ELSE ShapeLists(n - 1) \cup
         {Append(l, r) : l \in {l \in ShapeLists(n - 1) : Len(l) = n - 1}, r \in ShapeRecords}

InitShapes ==
    /\ NotStarted
    /\ OneRun
    /\ stream \in MetricsStreams
    /\ config = Config(PyStr("%Y-%m-%d", 1), PyStr("%Y-%m-%d", 2), NoAccountIds, PyNone)
    /\ starting_timestamp = PyNone
    /\ today = Today
    /\ \E body \in {StatsBody(l) : l \in ShapeLists(MaxShapeRecords)}
                   \cup {[json |-> TRUE, shape |-> "dict", list |-> <<r>>] :
                            r \in ShapeRecords} :
           server = [accounts |-> Listing(<<Account(PyInt(10), PyDict(1))>>),
                     campaigns |-> Listing(<<Campaign(PyInt(100), PyStr("text", 100))>>),
                     stats |-> body]
    /\ outage = <<>>

SpecShapes == InitShapes /\ [][NextRun]_vars

\* ---- runs to their end: several windows per campaign, outages, bodies that are not JSON

InitTermination ==
    /\ NotStarted
    /\ OneRun
    /\ stream \in StreamNames
    /\ \E start \in {PyStr("%Y-%m-%d", 2), PyStr("%Y-%m-%d", 10)} :
           config = Config(start, PyStr("%Y-%m-%d", 11), NoAccountIds, PyNone)
    /\ starting_timestamp = PyNone
    /\ today = Today
    /\ server \in ServerBodies
    /\ \E k \in 0..MaxHealthyAttempts, o \in Outages :
           outage = Repeat(HttpResponse(200), k) \o o

\* get_records is a synchronous generator: when every attempt returns (requests.get
\* has timeout=30, streams.py:42) and the consumer keeps pulling, the step that is
\* enabled is taken.
SpecTermination == InitTermination /\ [][NextRun]_vars /\ WF_vars(NextRun)

\* ---- runs of the metrics streams over two accounts, two campaigns, several windows
\* ---- and several records per window, with failures that the retries get over

InitOrder ==
    /\ NotStarted
    /\ OneRun
    /\ stream \in MetricsStreams
    /\ \E start \in {PyStr("%Y-%m-%d", 2), PyStr("%Y-%m-%d", 10)} :
           config = Config(start, PyStr("%Y-%m-%d", 12), NoAccountIds, PyNone)
    /\ starting_timestamp = PyNone
    /\ today = Today
    /\ \E n \in 0..MaxRecords :
           server = [accounts |-> Listing(TwoAccounts),
                     campaigns |-> Listing(<<Campaign(PyInt(100), PyStr("text", 100)),
                                             Campaign(PyInt(200), PyStr("text", 200))>>),
                     stats |-> StatsBody([k \in 1..n |->
                                   MetricRecord(PyStr("%Y-%m-%d", 1), PyInt(4 + k))])]
    /\ outage \in TransientOutages

SpecOrder == InitOrder /\ [][NextRun]_vars

\* ---- runs over payload dates of every kind, with and without a bookmark, two
\* ---- campaigns and two records per window

InitStamps ==
    /\ NotStarted
    /\ OneRun
    /\ stream \in MetricsStreams
    /\ \E lookback \in {PyNone, PyInt(1)} :
           config = Config(PyStr("%Y-%m-%d", 9), PyStr("%Y-%m-%d", 12), NoAccountIds, lookback)
    /\ starting_timestamp \in {PyNone, PyValue("datetime", 12, "")}
    /\ today = Today
    /\ \E d \in RawDates :
           server = [accounts |-> Listing(<<Account(PyInt(10), PyDict(1))>>),
                     campaigns |-> Listing(<<Campaign(PyInt(100), PyStr("text", 100)),
                                             Campaign(PyInt(200), PyStr("text", 200))>>),
                     stats |-> StatsBody(<<MetricRecord(d, PyInt(5)),
                                           MetricRecord(PyStr("%Y-%m-%d", 19), PyInt(6))>>)]
    /\ outage = <<>>

SpecStamps == InitStamps /\ [][NextRun]_vars

\* ------------------------------------------------------------------ claims about get_with_retry

Success(r) == (~r.transport) /\ r.status < 400

\* A retryable failure in the spec's sense: HTTP 5xx, HTTP 429 or a transport failure.
RetryableFailure(r) == r.transport \/ ((~r.transport) /\ is_retryable_response(r))

\* A non-retryable failure in the spec's sense: a 4xx other than 429.
NonRetryableFailure(r) ==
    (~r.transport) /\ r.status >= 400 /\ r.status < 500 /\ r.status # 429

NonDecreasing(s) == \A i \in 1..(Len(s) - 1) : s[i] <= s[i + 1]

\* C1: when the first response is a non-retryable HTTP error (a 4xx other than 429),
\* the call fails with that HTTP error after exactly 1 attempt: no second request is
\* issued and no backoff wait happens.
C1_NonRetryableFailsOnFirstAttempt ==
    NonRetryableFailure(responses[1]) =>
        /\ attempt_number <= 1
        /\ sleeps = <<>>
        /\ (attempt_number = 1 => result = Raised(raise_for_status(responses[1])))

\* C6: a call makes at most 5 attempts; when the first 5 answers are all retryable
\* failures, the call runs through exactly 5 attempts and then raises the 5th
\* attempt's own failure, not wrapped in a retry-specific error.
C6_FiveAttemptsThenLastFailure ==
    /\ attempt_number <= 5
    /\ Len(requests) = attempt_number
    /\ (\A i \in 1..5 : RetryableFailure(responses[i])) =>
           /\ (attempt_number < 5 => result.kind = "none")
           /\ (attempt_number = 5 =>
                  /\ result = Raised(AttemptError(responses[5]))
                  /\ ~result.exc.wrapped
                  /\ result.exc.type # "RetryError")

C6_Witness ==
    /\ \A i \in 1..5 : RetryableFailure(responses[i])
    /\ attempt_number = 5
    /\ result.kind = "raise"
    /\ \E i \in 1..5 : responses[i].transport
    /\ \E i \in 1..5 : responses[i].status = 429

\* C7: when the first k answers (0 <= k <= 4) are retryable failures and answer k+1
\* is a success, exactly k+1 attempts occur, the call returns that success, and the k
\* waits between the attempts are non-decreasing and each at most 10.
C7_FailuresThenSuccess ==
    \A k \in 0..4 :
        ((\A i \in 1..k : RetryableFailure(responses[i])) /\ Success(responses[k + 1])) =>
            /\ attempt_number <= k + 1
            /\ (attempt_number < k + 1 => result.kind = "none")
            /\ (attempt_number = k + 1 =>
                   /\ result = Returned(responses[k + 1])
                   /\ Len(sleeps) = k)
            /\ NonDecreasing(sleeps)
            /\ \A i \in 1..Len(sleeps) : sleeps[i] <= 10

C7_Witness ==
    /\ responses[1] = HttpResponse(500)
    /\ responses[2] = HttpResponse(500)
    /\ responses[3] = HttpResponse(200)
    /\ attempt_number = 3
    /\ Len(sleeps) = 2
    /\ result = Returned(HttpResponse(200))

\* C8 as stated: the waits before attempts 2, 3, 4 and 5 are 2, 4, 8 and 10 (looked at
\* on calls whose failures are all retryable ones).
C8_WaitsDoubleFromTwo ==
    (\A i \in 1..Len(sleeps) : RetryableFailure(responses[i])) =>
        \A i \in 1..Len(sleeps) : sleeps[i] = <<2, 4, 8, 10>>[i]

\* C8 amended: the wait after the n-th failed attempt is max(2, min(2^(n-1), 10)), so
\* the waits before attempts 2, 3, 4 and 5 are 2, 2, 4 and 8: the first doubling is
\* absorbed by the floor of 2 and the cap of 10 is not reached within 5 attempts.
C8_WaitsTwoTwoFourEight ==
    /\ Len(sleeps) <= 4
    /\ Len(sleeps) = (IF result.kind = "none" THEN attempt_number ELSE attempt_number - 1)
    /\ \A i \in 1..Len(sleeps) : sleeps[i] = <<2, 2, 4, 8>>[i]

C8_Witness ==
    /\ \A i \in 1..4 : RetryableFailure(responses[i])
    /\ Len(sleeps) = 4
    /\ attempt_number = 5
    /\ result.kind = "return"

\* ------------------------------------------------------------------ claims about the account allow-list

\* The accounts a run has processed so far, as their string-cast ids in order: the
\* accounts stream yields them, every other stream requests their campaigns.
ProcessedAccounts ==
    IF stream = "accounts"
    THEN [i \in 1..Len(emitted) |-> str(emitted[i].id.n)]
    ELSE LET calls == SelectSeq(requests, LAMBDA q : q.kind = "campaigns")
         IN  [i \in 1..Len(calls) |-> calls[i].account]

\* The comma-separated entries of a string: every piece that lies between two
\* neighbouring commas (or an end of the string).
EntriesOf(w) ==
    {SubSeq(w, i + 1, j - 1) :
        <<i, j>> \in {<<i, j>> \in (0..Len(w)) \X (1..(Len(w) + 1)) :
                         /\ i < j
                         /\ (i = 0 \/ w[i] = ",")
                         /\ (j = Len(w) + 1 \/ w[j] = ",")
                         /\ \A k \in (i + 1)..(j - 1) : w[k] # ","}}

\* An entry without the whitespace around it: from its first to its last character
\* that is no blank.
Trimmed(e) ==
    LET inked == {k \in 1..Len(e) : e[k] # " "}
    IN  IF inked = {} THEN <<>>
        ELSE SubSeq(e, CHOOSE a \in inked : \A k \in inked : a <= k,
                       CHOOSE b \in inked : \A k \in inked : b >= k)

HasId(account) == account.id.t \notin {"absent", "none"}

HasTruthyId(account) == HasId(account) /\ account.id.n # 0

Listed(account) ==
    \E e \in EntriesOf(config.account_ids.chars) : Trimmed(e) = str(account.id.n)

IdsOf(list) == [i \in 1..Len(list) |-> str(list[i].id.n)]

\* C9 as stated: when account_ids is non-empty the accounts processed are exactly the
\* listed accounts that have an id and whose string-cast id equals a trimmed entry, in
\* listing order; when it is absent or empty, every account with an id is processed.
C9_AllowListOfNonEmptyString ==
    pc = "done" =>
        ProcessedAccounts =
            IF config.account_ids.t = "str" /\ config.account_ids.chars # <<>>
            THEN IdsOf(SelectSeq(server.accounts.list,
                                 LAMBDA a : HasId(a) /\ Listed(a)))
            ELSE IdsOf(SelectSeq(server.accounts.list, HasId))

\* C9 amended: when account_ids holds at least one non-blank entry, the accounts
\* processed are exactly the listed accounts with a truthy id (present, not null, not
\* 0) whose string-cast id equals a trimmed entry, in listing order; when account_ids is
\* absent, empty or holds only blank entries, every account with a truthy id is
\* processed.
C9_AllowListOfNonBlankEntries ==
    pc = "done" =>
        ProcessedAccounts =
            IF /\ config.account_ids.t = "str"
               /\ \E e \in EntriesOf(config.account_ids.chars) : Trimmed(e) # <<>>
            THEN IdsOf(SelectSeq(server.accounts.list,
                                 LAMBDA a : HasTruthyId(a) /\ Listed(a)))
            ELSE IdsOf(SelectSeq(server.accounts.list, HasTruthyId))

C9_Witness ==
    /\ pc = "done"
    /\ stream = "creative_stats"
    /\ config.account_ids = AccountIds(<<"2", ",", " ", "3">>)
    /\ IdsOf(server.accounts.list) = <<<<"1">>, <<"2">>, <<"3">>>>
    /\ ProcessedAccounts = <<<<"2">>, <<"3">>>>

\* The requests of one kind that were answered with a 200, in order.
SuccessfulRequests(kind) ==
    SelectSeq(requests, LAMBDA q : q.kind = kind /\ q.status = 200)

\* The retained accounts of the listing: those with a truthy id that the allow-list,
\* when it holds a non-blank entry, lists.
RetainedAccounts ==
    IF /\ config.account_ids.t = "str"
       /\ \E e \in EntriesOf(config.account_ids.chars) : Trimmed(e) # <<>>
    THEN SelectSeq(server.accounts.list, LAMBDA a : HasTruthyId(a) /\ Listed(a))
    ELSE SelectSeq(server.accounts.list, HasTruthyId)

\* The campaigns listing was requested successfully once for each retained account,
\* in listing order, with that account's id in the X-GT-ACCOUNT-ID header.
CampaignsRequestedOncePerRetainedAccount ==
    LET calls == SuccessfulRequests("campaigns")
    IN  [i \in 1..Len(calls) |-> calls[i].account] = IdsOf(RetainedAccounts)

\* Every campaigns request, failed attempts included, carries the id of a retained
\* account, and every metrics request comes after the successful campaigns request
\* of one.
NoRequestOutsideRetainedAccounts ==
    \A i \in 1..Len(requests) :
        /\ requests[i].kind = "campaigns" =>
               \E k \in 1..Len(RetainedAccounts) :
                   requests[i].account = IdsOf(RetainedAccounts)[k]
        /\ requests[i].kind = "stats" =>
               \E j \in 1..(i - 1) :
                   requests[j].kind = "campaigns" /\ requests[j].status = 200

\* C18: in a run in which no fetch fails, the accounts listing is requested
\* successfully exactly once, the campaigns listing exactly once for each retained
\* account with that account's id in the header, and no campaigns or metrics request
\* is issued for an account without id or outside the allow-list.
C18_OneCampaignsRequestPerRetainedAccount ==
    /\ pc # "failed"
    /\ NoRequestOutsideRetainedAccounts
    /\ pc = "done" =>
           /\ Len(SuccessfulRequests("accounts")) = 1
           /\ CampaignsRequestedOncePerRetainedAccount

\* C18, amended: the same in every stream but the accounts stream, whose run requests
\* the accounts listing and nothing else.
C18_OneCampaignsRequestPerRetainedAccountWalked ==
    /\ pc # "failed"
    /\ NoRequestOutsideRetainedAccounts
    /\ pc = "done" =>
           /\ Len(SuccessfulRequests("accounts")) = 1
           /\ IF stream = "accounts"
              THEN \A i \in 1..Len(requests) : requests[i].kind = "accounts"
              ELSE CampaignsRequestedOncePerRetainedAccount

\* A creative_stats run is over in which an attempt failed and was retried, the
\* allow-list retained two of the three accounts, and their campaigns were requested.
C18_Witness ==
    /\ pc = "done"
    /\ stream = "creative_stats"
    /\ \E i \in 1..Len(requests) : requests[i].kind = "campaigns" /\ requests[i].status # 200
    /\ Len(server.accounts.list) = 3
    /\ IdsOf(RetainedAccounts) = <<<<"2">>, <<"3">>>>
    /\ Len(SuccessfulRequests("campaigns")) = 2
    /\ Len(SuccessfulRequests("stats")) = 2

\* ------------------------------------------------------------------ claims about campaigns

\* C10: a campaign whose upstream record has no id is never yielded by the campaigns
\* stream and never causes a metrics request; every campaign that is yielded carries
\* account_id equal to the id of an account whose campaigns were requested.
C10_CampaignWithoutIdIsSkipped ==
    /\ stream = "campaigns" =>
           \A i \in 1..Len(emitted) :
               /\ emitted[i].id.t # "absent"
               /\ emitted[i].account_id.t = "int"
               /\ \E k \in 1..Len(ProcessedAccounts) :
                      ProcessedAccounts[k] = str(emitted[i].account_id.n)
    /\ \A k \in 1..Len(requests) :
           requests[k].kind = "stats" =>
               \E i \in 1..Len(server.campaigns.list) :
                   /\ server.campaigns.list[i].id.t = "int"
                   /\ server.campaigns.list[i].id.n = requests[k].campaign

\* ------------------------------------------------------------------ claims about date windows

\* The stats requests issued for one campaign, in order.
WindowsOf(c) == SelectSeq(requests, LAMBDA q : q.kind = "stats" /\ q.campaign = c)

CampaignIds == {100, 200}

\* The lookback in days: lookback_days, 7 when it is not configured.
Lookback == IF config.lookback_days.t = "none" THEN 7 ELSE config.lookback_days.n

BookmarkExists == starting_timestamp.t # "none"

\* The day the windows of a campaign start at and the day they end at.
AnchorStart ==
    IF BookmarkExists THEN starting_timestamp.n - Lookback ELSE config.start_date.n

OverallEnd == IF config.end_date.t = "none" THEN today ELSE config.end_date.n

\* The chunk width of the stream in days.
Width == IF stream = "creative_stats" THEN 7 ELSE 1

\* C3: the windows requested for one campaign begin at the anchor start, each next
\* window begins exactly one day after the previous window's end, every window spans
\* at most the chunk width, and (start <= end) the last window ends at the overall end.
C3_WindowsCoverTheRange ==
    \A c \in CampaignIds :
        LET W == WindowsOf(c)
        IN  /\ W # <<>> => W[1].start_date = PyStr("%Y-%m-%d", AnchorStart)
            /\ \A i \in 1..(Len(W) - 1) :
                   W[i + 1].start_date = PyStr("%Y-%m-%d", W[i].end_date.n + 1)
            /\ \A i \in 1..Len(W) :
                   /\ W[i].end_date.fmt = "%Y-%m-%d"
                   /\ W[i].start_date.n <= W[i].end_date.n
                   /\ W[i].end_date.n - W[i].start_date.n + 1 <= Width
                   /\ W[i].end_date.n <= OverallEnd
            /\ (pc = "done" /\ AnchorStart <= OverallEnd) =>
                   /\ W # <<>>
                   /\ W[Len(W)].end_date.n = OverallEnd

C3_Witness ==
    /\ pc = "done"
    /\ stream = "creative_stats"
    /\ Len(WindowsOf(200)) = 3
    /\ WindowsOf(200)[1].start_date.n = AnchorStart
    /\ WindowsOf(200)[3].end_date.n = OverallEnd
    /\ WindowsOf(200)[3].end_date.n - WindowsOf(200)[3].start_date.n + 1 < 7

\* C4: with a bookmark the first window of a campaign starts at
\* max(bookmark - lookback_days, configured start_date); without one it starts at the
\* configured start_date.
C4_FirstWindowNotBeforeConfiguredStart ==
    \A c \in CampaignIds :
        WindowsOf(c) # <<>> =>
            WindowsOf(c)[1].start_date.n =
                IF BookmarkExists
                THEN Max(starting_timestamp.n - Lookback, config.start_date.n)
                ELSE config.start_date.n

FirstWindows ==
    {i \in 1..Len(requests) :
        /\ requests[i].kind = "stats"
        /\ \/ i = 1
           \/ requests[i - 1].kind # "stats"
           \/ requests[i - 1].campaign # requests[i].campaign}

\* The latest date emitted so far: what the bookmark has advanced to, when it is
\* later than the bookmark the run began with.
LatestEmitted ==
    LET days == {emitted[i].date.n : i \in 1..Len(emitted)}
    IN  CHOOSE d \in days : \A o \in days : o <= d

C15_EmptyRangeRequestsNothing ==
    (StartDate.ok /\ EndDate.ok /\ AnchorStart > OverallEnd) =>
        /\ \A c \in CampaignIds : WindowsOf(c) = <<>>
        /\ emitted = <<>>
        /\ pc # "failed"
        /\ error = "none"
        /\ pc \in {"window_loop", "stats_call", "record_loop"} => pc = "window_loop"
        /\ pc = "done" => (ci = 2 /\ campaign.id = PyInt(200))

\* The configured end date 5 lies before bookmark - lookback = 12 - 3: the run has
\* walked both campaigns and is over, with the two listings as its only requests.
C15_Witness ==
    /\ pc = "done"
    /\ BookmarkExists
    /\ starting_timestamp.n - Lookback = 9
    /\ OverallEnd = 5
    /\ campaign.id = PyInt(200)
    /\ Len(requests) = 2
    /\ emitted = <<>>

\* ------------------------------------------------------------------ claims about records

\* C2: creative_stats emits a raw record whose date is an ISO date-time string such as
\* "2024-01-01T00:00:00Z" (the run does not fail on it) with date equal to the
\* calendar-date string "2024-01-01" and its other fields unchanged.
C2_IsoDateTimeEmittedAsCalendarDate ==
    (/\ stream = "creative_stats"
     /\ pc \in {"record_loop", "failed"}
     /\ ri >= 1
     /\ ri <= Len(records)
     /\ records[ri].date = PyStr("%Y-%m-%dT%H:%M:%SZ", 1)) =>
        /\ pc # "failed"
        /\ emitted # <<>>
        /\ emitted[Len(emitted)] = [records[ri] EXCEPT !.date = PyStr("%Y-%m-%d", 1)]

\* ------------------------------------------------------------------ claims about the configuration

\* A field the spec calls required is not in the configuration: organization_id, or
\* start_date when there is no bookmark.
RequiredFieldMissing ==
    \/ config.organization_id.t = "none"
    \/ (config.start_date.t = "none" /\ ~Truthy(starting_timestamp))

\* C11: if a required configuration field is absent (organization_id, or start_date
\* when no bookmark exists), the run fails before any HTTP request has been issued:
\* the count of requests sent is 0 at the moment of failure.
C11_MissingFieldFailsBeforeAnyRequest ==
    (RequiredFieldMissing /\ pc = "failed") => requests = <<>>

\* ------------------------------------------------------------------ claims about listing bodies

\* The places of a run after the accounts listing has been decoded, and the places
\* after a campaigns listing has been decoded.
AfterAccountsListing ==
    {"account_loop", "campaigns_call", "campaign_loop", "window_loop", "stats_call",
     "record_loop", "done"}

AfterCampaignsListing == {"campaign_loop", "window_loop", "stats_call", "record_loop"}

\* C12: a 2xx accounts or campaigns listing whose JSON body lacks the `accounts` or
\* `campaigns` key makes the run fail immediately: the run never goes on, and never
\* completes, with such a body taken for an empty listing.
C12_KeylessListingFailsTheRun ==
    /\ pc \in AfterAccountsListing => server.accounts.key
    /\ (pc \in AfterCampaignsListing \/ (pc = "done" /\ stream # "accounts" /\ ai > 0))
           => server.campaigns.key

\* ------------------------------------------------------------------ claims about failed fetches

\* The body the server gives to the call the run is waiting for.
BodyOfCall ==
    IF pc = "accounts_call" THEN server.accounts
    ELSE IF pc = "campaigns_call" THEN server.campaigns
    ELSE server.stats

\* The call the run is waiting for has ended and has failed for good: get_with_retry
\* has raised (retries exhausted, or a status that ends the call), or the body of the
\* response is not JSON.
FetchFailedPermanently ==
    /\ pc \in {"accounts_call", "campaigns_call", "stats_call"}
    /\ \/ result.kind = "raise"
       \/ (result.kind = "return" /\ ~BodyOfCall.json)

\* C13: once a fetch has failed permanently, for the accounts listing, a campaigns
\* listing or a window, the run ends in that error: its next step is the failure, and
\* from then on no HTTP request is issued and no record is emitted.
C13_NoSkipAndContinue ==
    [][/\ FetchFailedPermanently =>
              /\ pc' = "failed"
              /\ error' = (IF result.kind = "raise" THEN result.exc.type
                           ELSE "JSONDecodeError")
              /\ requests' = requests
              /\ emitted' = emitted
       /\ pc = "failed" =>
              /\ pc' = "failed"
              /\ error' = error
              /\ requests' = requests
              /\ emitted' = emitted]_vars

\* A window of the first account has failed after retries, records of an earlier
\* window are out, and the second account is never walked.
C13_Witness ==
    /\ pc = "failed"
    /\ error = "HTTPError"
    /\ request.kind = "stats"
    /\ emitted # <<>>
    /\ ai = 1
    /\ Len(accounts) = 2

\* C14: in every metrics stream the date of every emitted record is a plain calendar
\* date string YYYY-MM-DD, with no time of day.
C14_EmittedDateIsPlainCalendarDate ==
    \A i \in 1..Len(emitted) :
        /\ emitted[i].date.t = "str"
        /\ emitted[i].date.fmt = "%Y-%m-%d"

\* C14, amended: in the creative stream an emitted date that is a string is a plain
\* calendar date YYYY-MM-DD (a payload date that is not a string is emitted as it
\* came); in the location, publisher and demographic streams the date of every
\* emitted record is the date-time string YYYY-MM-DDT00:00:00 of a day of the range.
C14_EmittedDateByStream ==
    \A i \in 1..Len(emitted) :
        IF stream = "creative_stats"
        THEN emitted[i].date.t = "str" => emitted[i].date.fmt = "%Y-%m-%d"
        ELSE /\ emitted[i].date.t = "str"
             /\ emitted[i].date.fmt = "%Y-%m-%dT%H:%M:%S"
             /\ emitted[i].date.n \in config.start_date.n .. config.end_date.n

\* A location stream has emitted a record whose payload date was a plain calendar date.
C14_Witness ==
    /\ stream = "location_zipcode_stats"
    /\ pc = "record_loop"
    /\ ri = 1
    /\ records[1].date = PyStr("%Y-%m-%d", 1)
    /\ emitted # <<>>
    /\ emitted[Len(emitted)].date = PyStr("%Y-%m-%dT%H:%M:%S", current_start)

\* C16: normalizing is idempotent: for every stream and every raw record that the
\* normalization accepts, normalizing the normalized record again, with the same
\* campaign and window, gives that record unchanged.
C16_NormalizeIsIdempotent ==
    pc = "record_loop" =>
        \A i \in 1..Len(records) :
            Normalize(records[i]).ok =>
                Normalize(Normalize(records[i]).record) = Normalize(records[i])

\* The publisher stream has normalized and emitted a raw record that carried another
\* date and another campaign than the ones written into it.
C16_Witness ==
    /\ pc = "record_loop"
    /\ stream = "campaign_publisher_stats"
    /\ ri = 1
    /\ records[1].campaign_id = PyInt(999)
    /\ records[1].date = PyStr("%Y-%m-%d", 1)
    /\ Normalize(records[1]).ok
    /\ Normalize(records[1]).record # records[1]
    /\ emitted # <<>>
    /\ emitted[Len(emitted)] = Normalize(records[1]).record

\* C20: in the publisher and demographic streams a raw record whose payload carries
\* campaign_id or campaign_name is emitted with the payload's value; the walker's
\* campaign id and name are written only into records that lack the field.
C20_CampaignFieldsOfThePayloadAreKept ==
    (/\ stream \in {"campaign_publisher_stats", "campaign_demographic_stats"}
     /\ pc = "record_loop"
     /\ ri >= 1
     /\ emitted # <<>>) =>
        LET raw == records[ri]
            out == emitted[Len(emitted)]
        IN  /\ out.campaign_id =
                   (IF raw.campaign_id.t = "absent" THEN campaign.id ELSE raw.campaign_id)
            /\ out.campaign_name =
                   (IF raw.campaign_name.t = "absent" THEN campaign.name
                    ELSE raw.campaign_name)

\* ------------------------------------------------------------------ claims about interleaved runs

IsPrefix(a, b) == Len(a) <= Len(b) /\ SubSeq(b, 1, Len(a)) = a

\* A run in state l, interleaved with another, does what it did by itself as run k: its
\* requests and its records so far are the first of those it issued and emitted alone,
\* no call of it has made more than 5 attempts, and once it has ended it has issued
\* the same requests, emitted the same records and ended the same way.
DoesAsAlone(l, k) ==
    /\ IsPrefix(l.requests, alone[k].requests)
    /\ IsPrefix(l.emitted, alone[k].emitted)
    /\ l.attempt_number <= 5
    /\ Ended(l) => Outcome(l) = alone[k]

\* C19: two runs, of the same or of different streams, whose steps interleave in any
\* way share no mutable state that matters: each issues the same requests, with its
\* own budget of 5 attempts per call, and emits the same records as when it runs alone
\* against the same responses.
C19_InterleavedRunsDoAsAlone ==
    phase = "both" => (DoesAsAlone(LocalState, active) /\ DoesAsAlone(other, 3 - active))

\* Both runs are in the middle of a call with failed attempts behind them: run 1 has
\* made 3 attempts, run 2 has then begun its call and made 2, and the statistics of the
\* Retrying object are those run 2 has left.
C19_Witness ==
    /\ phase = "both"
    /\ active = 1
    /\ result.kind = "none"
    /\ attempt_number = 3
    /\ other.result.kind = "none"
    /\ other.attempt_number = 2
    /\ statistics.attempt_number = 3
    /\ stream # other.stream

\* ------------------------------------------------------------------ claims about body shapes

\* The objects of a stats body as the spec reads it: the one object of a body that is
\* a single object, the objects of a list in list order.
ObjectsOf(body) == body.list

\* C22: in the publisher and demographic streams a window whose body is a single JSON
\* object emits exactly one record, with that object's fields; a window whose body is
\* a list of n objects emits exactly n records, in list order.
C22_OneRecordPerObjectOfTheBody ==
    stream \in {"campaign_publisher_stats", "campaign_demographic_stats"} =>
        LET objects == ObjectsOf(server.stats)
            n == Len(objects)
            windows == Len(SuccessfulRequests("stats"))
        IN  /\ server.stats.shape = "dict" => n = 1
            /\ pc # "failed"
            /\ pc = "record_loop" =>
                   /\ Len(emitted) = (windows - 1) * n + ri
                   /\ \A k \in 1..ri :
                          emitted[(windows - 1) * n + k].impressions = objects[k].impressions
            /\ pc \in {"window_loop", "campaign_loop", "account_loop", "done"} =>
                   Len(emitted) = windows * n

\* The publisher stream has emitted the one record of a window whose body was a
\* single object, and the first window's record before it.
C22_Witness ==
    /\ stream = "campaign_publisher_stats"
    /\ server.stats.shape = "dict"
    /\ pc = "record_loop"
    /\ ri = 1
    /\ Len(emitted) = 2
    /\ emitted[2].impressions = server.stats.list[1].impressions

\* ------------------------------------------------------------------ claims about termination

\* C23: when every attempt returns and the consumer keeps pulling, the run ends,
\* completed or failed; within a campaign every turn of the window loop moves the
\* window start strictly forward; no call of get_with_retry makes more than 5 attempts.
C23_RunEnds ==
    /\ <>(pc \in {"done", "failed"})
    /\ [][pc = "record_loop" /\ pc' = "window_loop" => current_start' > current_start]_vars
    /\ [](attempt_number <= 5)

\* A run has ended after an outage that took retries and after more than one window
\* of one campaign.
C23_Witness ==
    /\ pc = "done"
    /\ stream = "creative_stats"
    /\ \E q \in 1..Len(requests) : requests[q].status # 200
    /\ \E i, j \in 1..Len(requests) :
           /\ requests[i].kind = "stats" /\ requests[j].kind = "stats"
           /\ i < j
           /\ requests[i].campaign = requests[j].campaign
           /\ requests[i].start_date.n < requests[j].start_date.n

\* ------------------------------------------------------------------ claims about order and laziness

\* The position of an account and of a campaign in their listings.
AccountPosition(id) ==
    CHOOSE i \in 1..Len(server.accounts.list) : str(server.accounts.list[i].id.n) = id

CampaignPosition(c) ==
    CHOOSE i \in 1..Len(server.campaigns.list) : server.campaigns.list[i].id.n = c

\* The account a request was made for: that of the header of the campaigns request
\* before it.
AccountOfRequest(k) ==
    LET before == {j \in 1..k : requests[j].kind = "campaigns"}
    IN  requests[CHOOSE j \in before : \A h \in before : h <= j].account

\* (account position, campaign position, window start) of the k-th request.
OrderKey(k) ==
    IF requests[k].kind = "campaigns"
    THEN <<AccountPosition(requests[k].account), 0, 0>>
    ELSE <<AccountPosition(AccountOfRequest(k)), CampaignPosition(requests[k].campaign),
           requests[k].start_date.n>>

LexLess(a, b) ==
    \/ a[1] < b[1]
    \/ a[1] = b[1] /\ a[2] < b[2]
    \/ a[1] = b[1] /\ a[2] = b[2] /\ a[3] < b[3]

\* The requests after the accounts listing are in lexicographic order, the attempts
\* of one call aside, which repeat the request: each request is before the next, or
\* failed and is the same as the next.
RequestsInLexicographicOrder ==
    \A i \in 1..(Len(requests) - 1) :
        requests[i].kind # "accounts" =>
            \/ LexLess(OrderKey(i), OrderKey(i + 1))
            \/ requests[i].status # 200 /\ OrderKey(i) = OrderKey(i + 1)

\* The records are those of the windows in the order of their requests: the k-th
\* record is one of the window that the requests answered so far put it in.
RecordsInOrderOfTheirWindows ==
    LET n == Len(server.stats.list)
        windows == SuccessfulRequests("stats")
    IN  /\ Len(emitted) <= Len(windows) * n
        /\ \A k \in 1..Len(emitted) :
               LET w == windows[((k - 1) \div n) + 1]
               IN  /\ emitted[k].impressions = server.stats.list[((k - 1) % n) + 1].impressions
                   /\ stream # "creative_stats" =>
                          emitted[k].date = datetime_isoformat(w.start_date.n)
                   /\ stream \in {"campaign_publisher_stats", "campaign_demographic_stats"} =>
                          emitted[k].campaign_id.n = w.campaign

\* A request is made only once every record of the windows answered before it has
\* been pulled, and no pull of a record but the one after the last makes a request.
RequestOnlyAfterEveryRecordIsPulled ==
    requests' # requests =>
        /\ Len(emitted) = Len(SuccessfulRequests("stats")) * Len(server.stats.list)
        /\ pc # "record_loop"
        /\ emitted' = emitted

\* C24: the requests and the records of a metrics stream run follow the lexicographic
\* order (account position, campaign position, window start ascending), and the
\* request for a window is made only after every record of the window before it has
\* been pulled, so that no request follows when the consumer stops pulling.
C24_OrderedAndLazy ==
    /\ [](RequestsInLexicographicOrder /\ RecordsInOrderOfTheirWindows)
    /\ [][RequestOnlyAfterEveryRecordIsPulled]_vars

\* The publisher stream is in the second account, at the second campaign's second
\* window, got over a failed attempt, and has handed out the first of its two records.
C24_Witness ==
    /\ stream = "campaign_publisher_stats"
    /\ Len(server.stats.list) = 2
    /\ \E q \in 1..Len(requests) : requests[q].status # 200
    /\ pc = "record_loop"
    /\ ri = 1
    /\ OrderKey(Len(requests)) = <<2, 2, 11>>
    /\ Len(emitted) = 2 * (Len(SuccessfulRequests("stats")) - 1) + 1

\* ------------------------------------------------------------------ claims about the dates of the 1-day streams

DailyStreams == MetricsStreams \ {"creative_stats"}

\* The campaign of the window that returned the k-th emitted record, every window
\* returning as many records as the body holds.
CampaignOfRecord(k) ==
    SuccessfulRequests("stats")[((k - 1) \div Len(server.stats.list)) + 1].campaign

\* Every emitted date is a day of [anchor start, end date], and the dates of the
\* records of one campaign do not decrease.
EmittedDatesInRangeAndNonDecreasing ==
    /\ \A k \in 1..Len(emitted) : emitted[k].date.n \in AnchorStart..OverallEnd
    /\ \A i, j \in 1..Len(emitted) :
           i < j /\ CampaignOfRecord(i) = CampaignOfRecord(j) =>
               emitted[i].date.n <= emitted[j].date.n

\* The record that a step emits has the date of the start day of the window that was
\* requested last and answered, whatever date the payload record had.
DateStampedFromWindowStart ==
    Len(emitted') > Len(emitted) =>
        LET window == requests[Len(requests)]
            out == emitted'[Len(emitted')]
        IN  /\ window.kind = "stats"
            /\ window.status = 200
            /\ out.date.t = "str"
            /\ out.date.n = window.start_date.n
            /\ out.date.n = window.end_date.n

\* C25: in the location, publisher and demographic streams the date of every emitted
\* record is the start day of the window whose request returned it, not the payload's
\* date; every emitted date lies in [anchor start, end date] and the dates emitted
\* for one campaign do not decrease.
C25_DateIsTheWindowStart ==
    /\ [][(stream \in DailyStreams) => DateStampedFromWindowStart]_vars
    /\ [](stream \in DailyStreams => EmittedDatesInRangeAndNonDecreasing)

\* A location stream, after a bookmark, has emitted for the second campaign a record
\* whose payload date lay after the end date, with the day of the second window.
C25_Witness ==
    /\ stream = "location_dma_stats"
    /\ BookmarkExists
    /\ pc = "record_loop"
    /\ ri = 2
    /\ CampaignOfRecord(Len(emitted)) = 200
    /\ records[ri].date = PyStr("%Y-%m-%d", 19)
    /\ emitted[Len(emitted)].date.n = AnchorStart + 1
    /\ emitted[Len(emitted)].date.n < 19

\* ------------------------------------------------------------------ claims about a blank allow-list

\* account_ids is a non-empty string none of whose comma-separated entries has a
\* character other than white space.
OnlyBlankEntries ==
    /\ config.account_ids.t = "str"
    /\ config.account_ids.chars # <<>>
    /\ \A e \in EntriesOf(config.account_ids.chars) : Trimmed(e) = <<>>

\* C26 as stated: with an account_ids that is non-empty and holds only blank entries,
\* every account of the listing that has an id is processed.
C26_BlankAllowListProcessesEveryAccountWithId ==
    pc = "done" /\ OnlyBlankEntries =>
        ProcessedAccounts = IdsOf(SelectSeq(server.accounts.list, HasId))

\* C26 amended: with an account_ids that is non-empty and holds only blank entries
\* the allow-list is empty and filters nothing: the accounts processed are those of
\* the listing with a truthy id (present, not null, not 0), in listing order, as they
\* are without account_ids.
C26_BlankAllowListIsNoAllowList ==
    OnlyBlankEntries =>
        /\ pc \notin {"start", "accounts_call"} => account_ids_config = {}
        /\ IsPrefix(ProcessedAccounts, IdsOf(SelectSeq(server.accounts.list, HasTruthyId)))
        /\ pc = "done" =>
               ProcessedAccounts = IdsOf(SelectSeq(server.accounts.list, HasTruthyId))

\* A run with account_ids " , " has ended and has processed the two accounts with a
\* truthy id, not the one without id and not the one with id 0.
C26_Witness ==
    /\ pc = "done"
    /\ stream = "creative_stats"
    /\ config.account_ids = AccountIds(<<" ", ",", " ">>)
    /\ Len(server.accounts.list) = 4
    /\ ProcessedAccounts = <<str(23), str(2)>>

====
